---- MODULE Spec2Model ----
(***************************************************************************)
(* Model of the PyInstaller archive extractor of src/src/main.rs.          *)
(*                                                                         *)
(* The input file is a sequence of bytes.  One run of main() locates the   *)
(* archive header, walks the table of contents (TOC) and then extracts     *)
(* every entry with one worker task per chunk of ChunkSize entries.        *)
(*                                                                         *)
(* Machine words.  A u32 is represented by the integer of                  *)
(* [-2^31, 2^31) that is congruent to it modulo 2^32 (TLC's integers are   *)
(* 32 bits wide), so the representation of 2^32 - 13 is -13; WrapAdd,      *)
(* WrapSub, ULt and ULe are the wrapping operations and the unsigned       *)
(* order on that representation.  usize and u64 values are plain integers; *)
(* a negative one stands for the value wrapped modulo 2^64.                *)
(***************************************************************************)
EXTENDS Integers, Sequences, FiniteSets, TLC

VARIABLES
    input,            \* the archive behind args.input; main reads its bytes
                      \* into file_content and never changes them
    overflow_checks,  \* build profile: TRUE = arithmetic overflow panics
    run,              \* number of the current run of the program
    prev_status,      \* exit status of the previous run, "none" in the first
    pc,               \* position of main()
    status,           \* "running", "ok" (exit 0) or "panicked" (exit 101)
    stdout,           \* diagnostics printed so far (println!)
    offset,           \* main: header offset found by the signature scan
    tail_size,        \* main: bytes after the 24-byte header
    header,           \* main: PyinstHeader
    overlay_offset,   \* main: filesize - package_size - tail_size
    fp,               \* cursor of the File handle
    bytes_read,       \* main: sum of the sizes of the entries parsed
    toc,              \* main: Vec<PyinstEntry>
    pyc_magic,        \* main: [u8; 16]
    cur,              \* parse_entry: locals between the two read_exact calls
    tasks,            \* one record per chunk of par_chunks(8)
    fs                \* the file system: resolved path -> node

vars == <<input, overflow_checks, run, prev_status, pc, status, stdout, offset,
          tail_size, header, overlay_offset, fp, bytes_read, toc, pyc_magic,
          cur, tasks, fs>>

(***************************************************************************)
(* Bounds of the model                                                     *)
(***************************************************************************)
MaxEntries == 2    \* TOC length of the archives built from the catalogue
MaxJunk == 2       \* bytes appended after the 88-byte cookie
MaxRuns == 2       \* runs of the program against the same output root

(***************************************************************************)
(* Program constants                                                       *)
(***************************************************************************)
ARCHIVE_ITEM_PYZ == 122        \* b'z'
ARCHIVE_ITEM_PYSOURCE == 115   \* b's'
PYINST_MAGIC_BASE == <<77, 69, 73, 12, 11, 10, 11, 14>>
HeaderSize == 24               \* mem::size_of::<PyinstHeader>()
PrefixSize == 18               \* 4 * 4 + 1 + 1
TocBias == 64                  \* the constant added to overlay_offset
ChunkSize == 8                 \* par_chunks(8)
MagicLen == 16                 \* [0u8; 16]
PyzHeaderSize == 12            \* PyzHeader: magic[4], version[4], toc_offset

Byte == 0..255

(***************************************************************************)
(* Byte sequences                                                          *)
(***************************************************************************)
Zeros(n) == [i \in 1..n |-> 0]

\* s[from .. to) with 0-based bounds, as a Rust slice.
Slice(s, from, to) == SubSeq(s, from + 1, to)

IsPrefix(p, s) == Len(p) <= Len(s) /\ SubSeq(s, 1, Len(p)) = p

RECURSIVE Sum(_)
Sum(s) == IF s = <<>> THEN 0 ELSE Head(s) + Sum(Tail(s))

\* the concatenation of ss[lo], ..., ss[hi]
RECURSIVE FlattenRange(_, _, _)
FlattenRange(ss, lo, hi) ==
    IF lo > hi THEN <<>>
    ELSE IF lo = hi THEN ss[lo]
    ELSE LET mid == (lo + hi) \div 2
         IN  FlattenRange(ss, lo, mid) \o FlattenRange(ss, mid + 1, hi)

Flatten(ss) == FlattenRange(ss, 1, Len(ss))

(***************************************************************************)
(* u32 arithmetic on the two's-complement representation                   *)
(***************************************************************************)
I32Max == 32767 * 65536 + 65535
I32Min == (-I32Max) - 1

\* u32::from_be_bytes
FromBeBytes(b) ==
    (IF b[1] >= 128 THEN b[1] - 256 ELSE b[1]) * 16777216
        + b[2] * 65536 + b[3] * 256 + b[4]

\* u32::from_le_bytes is not used by the program: PyzHeader keeps version
\* as [u8; 4].

\* unsigned a < b
ULt(a, b) == IF (a < 0) = (b < 0) THEN a < b ELSE b < 0
ULe(a, b) == a = b \/ ULt(a, b)

\* a + b overflows u32
AddOverflows(a, b) ==
    IF a < 0 /\ b < 0 THEN TRUE
    ELSE IF a >= 0 /\ b >= 0 THEN FALSE
    ELSE a + b >= 0

\* a.wrapping_add(b)
WrapAdd(a, b) ==
    IF a >= 0 /\ b >= 0 /\ a > I32Max - b
        THEN (a - I32Max - 1) + (b - I32Max - 1)
    ELSE IF a < 0 /\ b < 0 /\ a < I32Min - b
        THEN (a + I32Max + 1) + (b + I32Max + 1)
    ELSE a + b

\* a - b underflows u32
SubOverflows(a, b) == ULt(a, b)

\* a.wrapping_sub(b)
WrapSub(a, b) == IF b = I32Min THEN WrapAdd(a, I32Min) ELSE WrapAdd(a, -b)

(***************************************************************************)
(* String::from_utf8: the validity test of the standard library            *)
(***************************************************************************)
IsCont(b) == b >= 128 /\ b <= 191

RECURSIVE Utf8Valid(_)
Utf8Valid(s) ==
    IF s = <<>> THEN TRUE
    ELSE LET b == s[1]
             n == Len(s)
             Rest(k) == SubSeq(s, k + 1, n)
         IN  IF b < 128 THEN Utf8Valid(Rest(1))
             ELSE IF b >= 194 /\ b <= 223
                 THEN n >= 2 /\ IsCont(s[2]) /\ Utf8Valid(Rest(2))
             ELSE IF b >= 224 /\ b <= 239
                 THEN /\ n >= 3
                      /\ IsCont(s[2]) /\ IsCont(s[3])
                      /\ (b = 224 => s[2] >= 160)
                      /\ (b = 237 => s[2] <= 159)
                      /\ Utf8Valid(Rest(3))
             ELSE IF b >= 240 /\ b <= 244
                 THEN /\ n >= 4
                      /\ IsCont(s[2]) /\ IsCont(s[3]) /\ IsCont(s[4])
                      /\ (b = 240 => s[2] >= 144)
                      /\ (b = 244 => s[2] <= 143)
                      /\ Utf8Valid(Rest(4))
             ELSE FALSE

(***************************************************************************)
(* flate2::read::ZlibDecoder, for streams made of stored deflate blocks.   *)
(* Inflate(c) is what the read loop of write_nested_file obtains from the  *)
(* decoder: the bytes produced before the end of the stream or before the  *)
(* first error, and whether the stream ended without error.  Block types   *)
(* 1 and 2 (Huffman-coded) do not occur in the inputs of the model.        *)
(***************************************************************************)
RECURSIVE AdlerA(_)
AdlerA(d) == IF d = <<>> THEN 1
             ELSE (AdlerA(SubSeq(d, 1, Len(d) - 1)) + d[Len(d)]) % 65521

RECURSIVE AdlerB(_)
AdlerB(d) == IF d = <<>> THEN 0
             ELSE (AdlerB(SubSeq(d, 1, Len(d) - 1)) + AdlerA(d)) % 65521

Adler32Bytes(d) ==
    <<AdlerB(d) \div 256, AdlerB(d) % 256, AdlerA(d) \div 256, AdlerA(d) % 256>>

RECURSIVE InflateBlocks(_, _, _)
InflateBlocks(c, pos, out) ==
    \* pos: 1-based index of the next block header in c
    IF pos + 4 > Len(c) THEN [ok |-> FALSE, out |-> out]
    ELSE LET bfinal == c[pos] % 2
             btype == (c[pos] \div 2) % 4
             len == c[pos + 1] + 256 * c[pos + 2]
             nlen == c[pos + 3] + 256 * c[pos + 4]
             avail == Len(c) - (pos + 4)
             data == SubSeq(c, pos + 5, pos + 4 + len)
             after == pos + 5 + len
         IN  IF btype # 0 \/ len + nlen # 65535
                 THEN [ok |-> FALSE, out |-> out]
             ELSE IF avail < len
                 THEN [ok |-> FALSE, out |-> out \o SubSeq(c, pos + 5, Len(c))]
             ELSE IF bfinal = 0
                 THEN InflateBlocks(c, after, out \o data)
             ELSE [ok |-> /\ after + 3 <= Len(c)
                          /\ SubSeq(c, after, after + 3) = Adler32Bytes(out \o data),
                   out |-> out \o data]

Inflate(c) ==
    IF Len(c) < 2 THEN [ok |-> FALSE, out |-> <<>>]
    ELSE IF \/ c[1] % 16 # 8
            \/ c[1] \div 16 > 7
            \/ (c[1] * 256 + c[2]) % 31 # 0
            \/ (c[2] \div 32) % 2 = 1
        THEN [ok |-> FALSE, out |-> <<>>]
    ELSE InflateBlocks(c, 3, <<>>)

(***************************************************************************)
(* Paths.  A path is the sequence of its components below the root         *)
(* directory "/"; a component is a sequence of bytes.  ".." is kept in a   *)
(* path as std::path keeps it, and resolved when the path reaches the      *)
(* operating system.                                                       *)
(***************************************************************************)
Slash == 47
Backslash == 92
DotDot == <<46, 46>>
Dot == <<46>>
PycExt == <<46, 112, 121, 99>>             \* ".pyc"

\* name.replace("\\", "/")
ReplaceBackslash(name) ==
    [i \in 1..Len(name) |-> IF name[i] = Backslash THEN Slash ELSE name[i]]

RECURSIVE SplitSlash(_, _)
SplitSlash(s, acc) ==
    \* the '/'-separated pieces of s, acc being the piece under construction
    IF s = <<>> THEN <<acc>>
    ELSE IF Head(s) = Slash THEN <<acc>> \o SplitSlash(Tail(s), <<>>)
    ELSE SplitSlash(Tail(s), Append(acc, Head(s)))

\* Path::components: empty pieces and "." are dropped
Components(s) == SelectSeq(SplitSlash(s, <<>>), LAMBDA c : c # <<>> /\ c # Dot)

IsAbsolute(s) == s # <<>> /\ s[1] = Slash

\* Path::join: an absolute argument replaces the base
Join(base, name) ==
    IF IsAbsolute(name) THEN Components(name) ELSE base \o Components(name)

\* Path::parent: the path without its last component
Parent(p) == SubSeq(p, 1, Len(p) - 1)

\* what the operating system makes of a path
RECURSIVE Resolve(_)
Resolve(p) ==
    IF p = <<>> THEN <<>>
    ELSE LET d == Resolve(Parent(p))
         IN  IF p[Len(p)] = DotDot
                 THEN (IF d = <<>> THEN <<>> ELSE Parent(d))
                 ELSE Append(d, p[Len(p)])

DirNode == [dir |-> TRUE, data |-> <<>>]
FileNode(d) == [dir |-> FALSE, data |-> d]

IsDirAt(f, r) == r \in DOMAIN f /\ f[r].dir

\* every directory the walk to the last component of p goes through exists
WalkOk(f, p) == \A k \in 0..(Len(p) - 1) : IsDirAt(f, Resolve(SubSeq(p, 1, k)))

\* the walk fails because a component is missing (ENOENT), not because one
\* is a file (ENOTDIR)
WalkNotFound(f, p) ==
    \E k \in 0..(Len(p) - 1) :
        /\ Resolve(SubSeq(p, 1, k)) \notin DOMAIN f
        /\ \A j \in 0..(k - 1) : IsDirAt(f, Resolve(SubSeq(p, 1, j)))

\* Path::exists
Exists(f, p) == WalkOk(f, p) /\ Resolve(p) \in DOMAIN f

\* Path::is_dir
IsDir(f, p) == WalkOk(f, p) /\ IsDirAt(f, Resolve(p))

\* fs::create_dir_all: [ok, fs]
RECURSIVE CreateDirAll(_, _)
CreateDirAll(f, p) ==
    LET Made(g) == (Resolve(p) :> DirNode) @@ g
        Retry(g) ==
            IF ~WalkOk(g, p) THEN [ok |-> FALSE, fs |-> g]
            ELSE IF Resolve(p) \in DOMAIN g THEN [ok |-> IsDir(g, p), fs |-> g]
            ELSE [ok |-> TRUE, fs |-> Made(g)]
    IN  IF p = <<>> THEN [ok |-> TRUE, fs |-> f]
        ELSE IF WalkOk(f, p)
            THEN (IF Resolve(p) \in DOMAIN f
                      THEN [ok |-> IsDir(f, p), fs |-> f]
                      ELSE [ok |-> TRUE, fs |-> Made(f)])
        ELSE IF ~WalkNotFound(f, p) THEN [ok |-> FALSE, fs |-> f]
        ELSE LET up == CreateDirAll(f, Parent(p))
             IN  IF up.ok THEN Retry(up.fs) ELSE up

\* fs::File::create: [ok, fs]; the file is created or truncated
FileCreate(f, p) ==
    IF \/ p = <<>>
       \/ p[Len(p)] = DotDot
       \/ ~WalkOk(f, p)
       \/ IsDirAt(f, Resolve(p))
        THEN [ok |-> FALSE, fs |-> f]
        ELSE [ok |-> TRUE, fs |-> [q \in DOMAIN f \cup {Resolve(p)} |->
                                      IF q = Resolve(p) THEN FileNode(<<>>) ELSE f[q]]]

\* one write() of d at the start of the file behind an open handle
FileWrite(f, p, d) ==
    LET r == Resolve(p)
        old == IF r \in DOMAIN f THEN f[r].data ELSE <<>>
        new == d \o SubSeq(old, Len(d) + 1, Len(old))
    IN  [q \in DOMAIN f \cup {r} |-> IF q = r THEN FileNode(new) ELSE f[q]]

(***************************************************************************)
(* The inputs of the model: archives laid out as PyInstaller lays them     *)
(* out.  file = launcher ++ payloads ++ TOC ++ header (24 bytes) ++        *)
(* library name (64 bytes) ++ junk.  package_size covers everything from   *)
(* the first payload to the end of the library name.  All header fields    *)
(* stay below 2^31.                                                        *)
(***************************************************************************)
LauncherLen == 64   \* bytes of native launcher in front of the package

ToBeBytes(n) == <<n \div 16777216, (n \div 65536) % 256, (n \div 256) % 256, n % 256>>

\* a zlib stream holding d in one stored block
Deflate(d) ==
    <<120, 1, 1, Len(d) % 256, Len(d) \div 256,
      (65535 - Len(d)) % 256, (65535 - Len(d)) \div 256>> \o d \o Adler32Bytes(d)

PyzPayload(version) == <<80, 89, 90, 0>> \o version \o <<0, 0, 0, 17>>

\* An entry as the archive declares it: kind, compression flag, name field,
\* payload bytes, and the declared size, compressed_size and the part of
\* size the header's toc_size accounts for.
Tmpl(type, flag, name, payload) ==
    [type |-> type, flag |-> flag, name |-> name, payload |-> payload,
     size |-> PrefixSize + Len(name), csize |-> Len(payload),
     counted |-> PrefixSize + Len(name)]

KindData == 120   \* b'x'

T_data == Tmpl(KindData, 0, <<98, 0>>, <<1, 2, 3>>)                    \* "b"
T_src == Tmpl(ARCHIVE_ITEM_PYSOURCE, 1, <<97, 0, 0>>, Deflate(<<7, 8>>)) \* "a"
T_pyz == Tmpl(ARCHIVE_ITEM_PYZ, 0, <<112, 0>>, PyzPayload(<<85, 13, 13, 10>>))
T_pyz0 == Tmpl(ARCHIVE_ITEM_PYZ, 0, <<113, 0>>, PyzPayload(<<0, 14, 13, 10>>))
T_badz == Tmpl(KindData, 1, <<107, 0>>, <<120, 1, 7, 0, 0, 0, 0>>)      \* "k"
T_trav == Tmpl(KindData, 0, <<46, 46, 47, 101, 0>>, <<9>>)              \* "../e"
T_small == [Tmpl(KindData, 0, <<>>, <<>>) EXCEPT !.size = 5]
T_fat == [Tmpl(KindData, 0, <<102, 0, 0>>, <<4>>) EXCEPT !.counted = 19] \* "f"
T_abs == Tmpl(KindData, 0, <<47, 116, 0>>, <<5>>)                       \* "/t"
T_oor == [Tmpl(KindData, 0, <<111, 0>>, <<6>>) EXCEPT !.csize = 4096]   \* "o"
T_dir == Tmpl(KindData, 0, <<100, 92, 101, 0>>, <<3, 3>>)               \* "d\e"
T_srcst == Tmpl(ARCHIVE_ITEM_PYSOURCE, 0, <<99, 0>>, <<2, 2>>)          \* "c"
T_utf8 == Tmpl(KindData, 0, <<255, 0>>, <<>>)
T_shortz == Tmpl(ARCHIVE_ITEM_PYZ, 0, <<114, 0>>, <<80, 89, 90, 0, 1>>)
T_dup == Tmpl(KindData, 0, <<97, 46, 112, 121, 99, 0>>, <<6, 6, 6>>)    \* "a.pyc"
T_num(i) == Tmpl(KindData, 0, <<98, 48 + i, 0>>, <<i>>)                 \* "b<i>"

Catalogue == <<T_data, T_src, T_pyz, T_pyz0, T_badz, T_trav, T_small, T_fat>>

\* the sequences of exactly n elements of the sequence S, as a sequence
RECURSIVE SeqsOfLen(_, _)
SeqsOfLen(S, n) ==
    IF n = 0 THEN << <<>> >>
    ELSE LET shorter == SeqsOfLen(S, n - 1)
         IN  Flatten([i \in 1..Len(shorter) |->
                         [j \in 1..Len(S) |-> Append(shorter[i], S[j])]])

CatalogueTocs == Flatten([n \in 1..(MaxEntries + 1) |-> SeqsOfLen(Catalogue, n - 1)])

SpecialTocs ==
    << <<T_pyz, T_src, T_data>>,
      <<T_oor, T_data>>,
      <<T_abs>>,
      <<T_dir, T_data>>,
      <<T_pyz, T_srcst>>,
      <<T_utf8>>,
      <<T_shortz>>,
      <<T_pyz, T_pyz0, T_pyz>>,
      <<T_src, T_num(1), T_num(2), T_num(3), T_num(4), T_num(5), T_num(6),
        T_num(7), T_dup>>,
      <<T_num(1), T_num(2), T_num(3), T_num(4), T_num(5), T_num(6), T_num(7),
        T_badz, T_data>> >>

PayloadOffset(ts, i) == Sum([k \in 1..(i - 1) |-> Len(ts[k].payload)])

EntryBytes(ts, i) ==
    ToBeBytes(ts[i].size) \o ToBeBytes(PayloadOffset(ts, i))
        \o ToBeBytes(ts[i].csize) \o ToBeBytes(Len(ts[i].payload))
        \o <<ts[i].flag, ts[i].type>> \o ts[i].name

\* the bytes of an archive [toc, launcher, junk, raw]; raw, when not empty,
\* is a file that is no archive
Build(a) ==
    LET ts == a.toc
        payloads == Flatten([i \in 1..Len(ts) |-> ts[i].payload])
        tocbytes == Flatten([i \in 1..Len(ts) |-> EntryBytes(ts, i)])
        package_size == Len(payloads) + Len(tocbytes) + HeaderSize + TocBias
        toc_size == Sum([i \in 1..Len(ts) |-> ts[i].counted])
    IN  IF a.raw # <<>> THEN a.raw
        ELSE [i \in 1..a.launcher |-> 144] \o payloads \o tocbytes
                 \o PYINST_MAGIC_BASE \o ToBeBytes(package_size)
                 \o ToBeBytes(Len(payloads)) \o ToBeBytes(toc_size) \o ToBeBytes(310)
                 \o Zeros(TocBias) \o [i \in 1..a.junk |-> 255]

Archive(ts, launcher, junk) ==
    [toc |-> ts, launcher |-> launcher, junk |-> junk, raw |-> <<>>]
Raw(bytes) == [toc |-> <<>>, launcher |-> 0, junk |-> 0, raw |-> bytes]

\* The archives of the catalogue come in two layouts, the special ones in
\* four: with and without junk after the cookie, behind a launcher of two
\* lengths.
InputList ==
    Flatten([i \in 1..Len(CatalogueTocs) |->
                <<Archive(CatalogueTocs[i], LauncherLen, 0),
                  Archive(CatalogueTocs[i], LauncherLen + MaxJunk, MaxJunk)>>])
    \o Flatten([i \in 1..Len(SpecialTocs) |->
                <<Archive(SpecialTocs[i], LauncherLen, 0),
                  Archive(SpecialTocs[i], LauncherLen, MaxJunk),
                  Archive(SpecialTocs[i], LauncherLen + 3, 0),
                  Archive(SpecialTocs[i], LauncherLen + 3, MaxJunk)>>])
    \o <<Archive(<<T_data>>, LauncherLen - 4, 0),              \* launcher too short
         Raw([i \in 1..16 |-> 144]),                          \* no signature
         Raw([i \in 1..4 |-> 144] \o PYINST_MAGIC_BASE \o <<0, 0>>)>> \* cut header

\* every input, with its number
Inputs == {[id |-> i, file |-> InputList[i]] : i \in DOMAIN InputList}

\* the bytes of input number i
Files == [i \in DOMAIN InputList |-> Build(InputList[i])]

\* main: file_content, the Vec<u8> holding the whole input file
file_content == Files[input.id]

(***************************************************************************)
(* State after construction                                                *)
(***************************************************************************)
Cwd == << <<119>> >>                      \* the working directory, /w
base_path == Cwd \o << <<111>> >>         \* the output root, /w/o

NoHeader == [package_size |-> 0, toc_offset |-> 0, toc_size |-> 0,
             python_version |-> 0]
NoEntry == [size |-> 0, offset |-> 0, compressed_size |-> 0,
            uncompressed_size |-> 0, compression_flag |-> 0, type_ |-> 0,
            name_size |-> 0]

filesize == Len(file_content)

\* the locals of main() before its first statement
Fresh ==
    /\ pc = "start"
    /\ status = "running"
    /\ stdout = <<>>
    /\ offset = 0
    /\ tail_size = 0
    /\ header = NoHeader
    /\ overlay_offset = 0
    /\ fp = 0
    /\ bytes_read = 0
    /\ toc = <<>>
    /\ pyc_magic = Zeros(MagicLen)
    /\ cur = NoEntry
    /\ tasks = <<>>

Init ==
    /\ input \in Inputs
    /\ overflow_checks \in BOOLEAN
    /\ run = 1
    /\ prev_status = "none"
    /\ Fresh
    /\ fs = (<<>> :> DirNode) @@ (Cwd :> DirNode)

\* a panic of the main thread ends the process
Panic == pc' = "done" /\ status' = "panicked"

(***************************************************************************)
(* main: the signature scan                           (main.rs 193-205)    *)
(***************************************************************************)
SignatureAt(i) == Slice(file_content, i, i + 8) = PYINST_MAGIC_BASE

\* file_content.windows(8).position(|window| window == signature)
Matches == {i \in 0..(filesize - 8) : SignatureAt(i)}
Position == CHOOSE i \in Matches : \A j \in Matches : i <= j

Locate ==
    /\ pc = "start"
    /\ IF Matches = {}
           THEN /\ Panic
                /\ stdout' = Append(stdout, "Extracting")
                /\ UNCHANGED offset
           ELSE /\ offset' = Position
                /\ stdout' = stdout \o <<"Extracting", "Got header offset">>
                /\ pc' = "header"
                /\ UNCHANGED status
    /\ UNCHANGED <<input, overflow_checks, run, prev_status, tail_size, header,
                   overlay_offset, fp, bytes_read, toc, pyc_magic, cur, tasks, fs>>

(***************************************************************************)
(* main: tail bytes, header, overlay offset, seek     (main.rs 208-225)    *)
(***************************************************************************)
\* PyinstHeader::read at the header offset
ReadHeader(at) ==
    [package_size |-> FromBeBytes(Slice(file_content, at + 8, at + 12)),
     toc_offset |-> FromBeBytes(Slice(file_content, at + 12, at + 16)),
     toc_size |-> FromBeBytes(Slice(file_content, at + 16, at + 20)),
     python_version |-> FromBeBytes(Slice(file_content, at + 20, at + 24))]

\* buffer.len() after seeking to offset + 24 and reading to the end
TailSize(at) == IF at + HeaderSize <= filesize THEN filesize - (at + HeaderSize) ELSE 0

\* filesize - header.package_size as usize - tail_size
OverlayOffset(size, package_size, tail) == size - package_size - tail

\* TocStart with the measured tail size in place of the constant
TocStartMeasured(overlay, toc_offset) == overlay + toc_offset + tail_size'

\* the argument of the seek to the TOC
TocStart(overlay, toc_offset) == overlay + toc_offset + TocBias

ParseHeader ==
    /\ pc = "header"
    /\ tail_size' = TailSize(offset)
    /\ IF offset + HeaderSize > filesize
           THEN Panic /\ UNCHANGED <<header, overlay_offset, fp, stdout>>
           ELSE LET h == ReadHeader(offset)
                    o == OverlayOffset(filesize, h.package_size, TailSize(offset))
                IN  /\ header' = h
                    /\ IF o < 0 /\ overflow_checks
                           THEN Panic /\ UNCHANGED <<overlay_offset, fp, stdout>>
                           ELSE /\ overlay_offset' = o
                                /\ fp' = TocStart(o, h.toc_offset)
                                /\ stdout' = Append(stdout, "Package Size")
                                /\ pc' = "toc"
                                /\ UNCHANGED status
    /\ UNCHANGED <<input, overflow_checks, run, prev_status, offset, bytes_read, toc,
                   pyc_magic, cur, tasks, fs>>

(***************************************************************************)
(* parse_entry and the TOC loop of main       (main.rs 127-167, 235-248)   *)
(***************************************************************************)
\* fp.read_exact of n bytes succeeds
CanRead(n) == fp >= 0 /\ n >= 0 /\ fp + n <= filesize

\* the cursor after a read_exact that hit the end of the file
AtEof == IF fp >= 0 /\ fp <= filesize THEN filesize ELSE fp

\* the byte range [offset, offset + compressed_size) of an entry, as both
\* main (line 239) and write_nested_file (line 90) slice it
ContentRange(e) ==
    LET end == WrapAdd(e.offset, e.compressed_size)
    IN  [ok |-> /\ ~(overflow_checks /\ AddOverflows(e.offset, e.compressed_size))
                /\ ULe(e.offset, end)
                /\ ULe(end, filesize),
         from |-> e.offset, to |-> end]

Content(e) == Slice(file_content, ContentRange(e).from, ContentRange(e).to)

\* first part of parse_entry: the 18-byte prefix and the name length
ReadPrefix ==
    /\ pc = "toc"
    /\ ULt(bytes_read, header.toc_size)
    /\ IF ~CanRead(PrefixSize)
           THEN Panic /\ fp' = AtEof /\ UNCHANGED cur
           ELSE LET b == Slice(file_content, fp, fp + PrefixSize)
                    size == FromBeBytes(SubSeq(b, 1, 4))
                    rel == FromBeBytes(SubSeq(b, 5, 8))
                    bias == overlay_offset + TocBias
                IN  /\ fp' = fp + PrefixSize
                    /\ IF overflow_checks
                          /\ (AddOverflows(rel, bias) \/ SubOverflows(size, PrefixSize))
                           THEN Panic /\ UNCHANGED cur
                           ELSE /\ cur' = [size |-> size,
                                           offset |-> WrapAdd(rel, bias),
                                           compressed_size |-> FromBeBytes(SubSeq(b, 9, 12)),
                                           uncompressed_size |-> FromBeBytes(SubSeq(b, 13, 16)),
                                           compression_flag |-> b[17],
                                           type_ |-> b[18],
                                           name_size |-> WrapSub(size, PrefixSize)]
                                /\ pc' = "name"
                                /\ UNCHANGED status
    /\ UNCHANGED <<input, overflow_checks, run, prev_status, stdout, offset, tail_size,
                   header, overlay_offset, bytes_read, toc, pyc_magic, tasks, fs>>

\* buffer.truncate at the first zero byte
TruncateAtNul(b) ==
    IF \E i \in 1..Len(b) : b[i] = 0
        THEN SubSeq(b, 1, (CHOOSE i \in 1..Len(b) :
                               b[i] = 0 /\ \A j \in 1..(i - 1) : b[j] # 0) - 1)
        ELSE b

\* the name of the entry: ".pyc" is appended for a source module
EntryName(b, type_) ==
    IF type_ = ARCHIVE_ITEM_PYSOURCE THEN TruncateAtNul(b) \o PycExt
                                     ELSE TruncateAtNul(b)

MakeEntry(c, name) ==
    [size |-> c.size, offset |-> c.offset, compressed_size |-> c.compressed_size,
     uncompressed_size |-> c.uncompressed_size,
     compression_flag |-> c.compression_flag, type_ |-> c.type_, name |-> name]

\* ReadPyz keeping the version bytes of the first nested container
ReadPyzFirstWins(e, magic) ==
    IF e.type_ # ARCHIVE_ITEM_PYZ THEN [ok |-> TRUE, magic |-> magic]
    ELSE IF ~ContentRange(e).ok \/ Len(Content(e)) < PyzHeaderSize
        THEN [ok |-> FALSE, magic |-> magic]
    ELSE [ok |-> TRUE,
          magic |-> IF SubSeq(magic, 1, 4) = Zeros(4)
                        THEN SubSeq(Content(e), 5, 8) \o SubSeq(magic, 5, MagicLen)
                        ELSE magic]

\* PyzHeader::read on the entry's slice and the copy of its version bytes:
\* [ok, magic]
ReadPyz(e, magic) ==
    IF e.type_ # ARCHIVE_ITEM_PYZ THEN [ok |-> TRUE, magic |-> magic]
    ELSE IF ~ContentRange(e).ok \/ Len(Content(e)) < PyzHeaderSize
        THEN [ok |-> FALSE, magic |-> magic]
    ELSE [ok |-> TRUE,
          magic |-> SubSeq(Content(e), 5, 8) \o SubSeq(magic, 5, MagicLen)]

\* second part of parse_entry and the rest of the loop body of main
ReadName ==
    /\ pc = "name"
    /\ IF ~CanRead(cur.name_size)
           THEN Panic /\ fp' = AtEof /\ UNCHANGED <<bytes_read, toc, pyc_magic>>
           ELSE LET b == Slice(file_content, fp, fp + cur.name_size)
                    e == MakeEntry(cur, EntryName(b, cur.type_))
                    z == ReadPyz(e, pyc_magic)
                IN  /\ fp' = fp + cur.name_size
                    /\ IF \/ ~Utf8Valid(TruncateAtNul(b))
                          \/ ~z.ok
                          \/ overflow_checks /\ AddOverflows(bytes_read, e.size)
                           THEN /\ Panic
                                /\ pyc_magic' = IF Utf8Valid(TruncateAtNul(b))
                                                    THEN z.magic ELSE pyc_magic
                                /\ UNCHANGED <<bytes_read, toc>>
                           ELSE /\ pyc_magic' = z.magic
                                /\ bytes_read' = WrapAdd(bytes_read, e.size)
                                /\ toc' = Append(toc, e)
                                /\ pc' = "toc"
                                /\ UNCHANGED status
    /\ UNCHANGED <<input, overflow_checks, run, prev_status, stdout, offset, tail_size,
                   header, overlay_offset, cur, tasks, fs>>

\* the chunks of toc.par_chunks(8): chunk t holds entries First(t)..Last(t)
NumChunks(n) == (n + ChunkSize - 1) \div ChunkSize
First(t) == (t - 1) * ChunkSize + 1
Last(t, n) == IF t * ChunkSize < n THEN t * ChunkSize ELSE n

\* the end of the TOC loop: diagnostics, then the parallel phase starts
EndToc ==
    /\ pc = "toc"
    /\ ~ULt(bytes_read, header.toc_size)
    /\ stdout' = stdout \o <<"Parsed entries">>
                    \o (IF pyc_magic[1] = 0
                            THEN <<"Cannot find the python header...">> ELSE <<>>)
    /\ tasks' = [t \in 1..NumChunks(Len(toc)) |-> [next |-> First(t), at |-> "check"]]
    /\ pc' = "extract"
    /\ UNCHANGED <<input, overflow_checks, run, prev_status, status, offset, tail_size,
                   header, overlay_offset, fp, bytes_read, toc, pyc_magic, cur, fs>>

(***************************************************************************)
(* write_nested_file, one step per system call        (main.rs 82-125)     *)
(* and the parallel loop of main                      (main.rs 258-262)    *)
(***************************************************************************)
\* base_path.join(entry.name.replace("\\", "/"))
FullPath(e) == Join(base_path, ReplaceBackslash(e.name))

\* has the magic prefix to be written (line 107)
WantsMagic(e, magic) == magic[1] # 0 /\ e.type_ = ARCHIVE_ITEM_PYSOURCE

\* the bytes handed to the writer for an entry, and whether the decoder
\* ended without error: [ok, out]
Output(e, magic) ==
    IF e.compression_flag = 1
        THEN [ok |-> Inflate(Content(e)).ok,
              out |-> (IF WantsMagic(e, magic) THEN magic ELSE <<>>)
                          \o Inflate(Content(e)).out]
        ELSE [ok |-> TRUE, out |-> Content(e)]

Running(t) == tasks[t].at \notin {"done", "panicked"}

\* the task moves to the next entry of its chunk
Advance(t) ==
    tasks' = [tasks EXCEPT ![t] =
                 [next |-> @.next + 1,
                  at |-> IF @.next = Last(t, Len(toc)) THEN "done" ELSE "check"]]

Fail(t) == tasks' = [tasks EXCEPT ![t].at = "panicked"]

\* lines 84-94: the path, the slice of the file buffer, the exists() test
Check(t) ==
    /\ pc = "extract"
    /\ tasks[t].at = "check"
    /\ LET e == toc[tasks[t].next]
       IN  IF ~ContentRange(e).ok THEN Fail(t)
           ELSE IF Exists(fs, FullPath(e)) THEN Advance(t)
           ELSE tasks' = [tasks EXCEPT ![t].at = "mkdir"]
    /\ UNCHANGED <<input, overflow_checks, run, prev_status, pc, status, stdout, offset,
                   tail_size, header, overlay_offset, fp, bytes_read, toc,
                   pyc_magic, cur, fs>>

\* lines 96-98: fs::create_dir_all(parent)
Mkdir(t) ==
    /\ pc = "extract"
    /\ tasks[t].at = "mkdir"
    /\ LET p == FullPath(toc[tasks[t].next])
           made == IF p = <<>> THEN [ok |-> TRUE, fs |-> fs]
                               ELSE CreateDirAll(fs, Parent(p))
       IN  /\ fs' = made.fs
           /\ IF made.ok THEN tasks' = [tasks EXCEPT ![t].at = "create"]
                         ELSE Fail(t)
    /\ UNCHANGED <<input, overflow_checks, run, prev_status, pc, status, stdout, offset,
                   tail_size, header, overlay_offset, fp, bytes_read, toc,
                   pyc_magic, cur>>

\* line 100: fs::File::create(&full_path)
Create(t) ==
    /\ pc = "extract"
    /\ tasks[t].at = "create"
    /\ LET made == FileCreate(fs, FullPath(toc[tasks[t].next]))
       IN  /\ fs' = made.fs
           /\ IF made.ok THEN tasks' = [tasks EXCEPT ![t].at = "write"]
                         ELSE Fail(t)
    /\ UNCHANGED <<input, overflow_checks, run, prev_status, pc, status, stdout, offset,
                   tail_size, header, overlay_offset, fp, bytes_read, toc,
                   pyc_magic, cur>>

\* lines 101-124: the writes, flushed when the BufWriter is flushed or dropped
Write(t) ==
    /\ pc = "extract"
    /\ tasks[t].at = "write"
    /\ LET e == toc[tasks[t].next]
           o == Output(e, pyc_magic)
       IN  /\ fs' = FileWrite(fs, FullPath(e), o.out)
           /\ IF o.ok THEN Advance(t) ELSE Fail(t)
    /\ UNCHANGED <<input, overflow_checks, run, prev_status, pc, status, stdout, offset,
                   tail_size, header, overlay_offset, fp, bytes_read, toc,
                   pyc_magic, cur>>

\* the parallel loop is over: main prints and returns, or the panic of a
\* task is propagated
Finish ==
    /\ pc = "extract"
    /\ \A t \in DOMAIN tasks : ~Running(t)
    /\ pc' = "done"
    /\ IF \E t \in DOMAIN tasks : tasks[t].at = "panicked"
           THEN status' = "panicked" /\ UNCHANGED stdout
           ELSE status' = "ok" /\ stdout' = Append(stdout, "Extracted as")
    /\ UNCHANGED <<input, overflow_checks, run, prev_status, offset, tail_size, header,
                   overlay_offset, fp, bytes_read, toc, pyc_magic, cur, tasks, fs>>

\* a task has panicked and the process ends while chunks are unfinished:
\* the build aborts on panic, or the pool never starts the chunks that
\* were queued behind the panicked one
Abort ==
    /\ pc = "extract"
    /\ \E t \in DOMAIN tasks : tasks[t].at = "panicked"
    /\ \E t \in DOMAIN tasks : Running(t)
    /\ pc' = "done"
    /\ status' = "panicked"
    /\ UNCHANGED <<input, overflow_checks, run, prev_status, stdout, offset, tail_size,
                   header, overlay_offset, fp, bytes_read, toc, pyc_magic, cur,
                   tasks, fs>>

\* the program is started again on the same input and output root
Rerun ==
    /\ pc = "done"
    /\ run < MaxRuns
    /\ run' = run + 1
    /\ prev_status' = status
    /\ pc' = "start"
    /\ status' = "running"
    /\ stdout' = <<>>
    /\ offset' = 0
    /\ tail_size' = 0
    /\ header' = NoHeader
    /\ overlay_offset' = 0
    /\ fp' = 0
    /\ bytes_read' = 0
    /\ toc' = <<>>
    /\ pyc_magic' = Zeros(MagicLen)
    /\ cur' = NoEntry
    /\ tasks' = <<>>
    /\ UNCHANGED <<input, overflow_checks, fs>>

Next ==
    \/ Locate
    \/ ParseHeader
    \/ ReadPrefix
    \/ ReadName
    \/ EndToc
    \/ \E t \in DOMAIN tasks : Check(t)
    \/ \E t \in DOMAIN tasks : Mkdir(t)
    \/ \E t \in DOMAIN tasks : Create(t)
    \/ \E t \in DOMAIN tasks : Write(t)
    \/ Finish
    \/ Abort
    \/ Rerun

Spec == Init /\ [][Next]_vars

(***************************************************************************)
(* Properties                                                              *)
(***************************************************************************)
Range(q) == {q[i] : i \in DOMAIN q}

\* the TOC walk of the current run has completed
WalkDone == "Parsed entries" \in Range(stdout)

\* the relative offset field of the prefix parse_entry has just read
RelOfCur == FromBeBytes(Slice(file_content, fp - PrefixSize + 4, fp - PrefixSize + 8))

\* main stands right after the seek to the TOC
AtTocStart == pc = "toc" /\ toc = <<>> /\ cur = NoEntry

\* the node at the destination of an entry
Dest(e) == Resolve(FullPath(e))

\* no other entry of the TOC has the destination of entry i
SoleTarget(i) == \A j \in DOMAIN toc : j # i => Dest(toc[j]) # Dest(toc[i])

\* what an entry carries: the inflated bytes, or the raw ones when stored
Payload(e) == IF e.compression_flag = 1 THEN Inflate(Content(e)).out ELSE Content(e)

PyzEntries == {i \in DOMAIN toc : toc[i].type_ = ARCHIVE_ITEM_PYZ}
LastPyz == CHOOSE i \in PyzEntries : \A j \in PyzEntries : j <= i

\* C1: an entry whose size field is below 18 never gets as far as the read
\* of its name (its name length is never the wrapped value of size - 18),
\* and no such entry is ever in the TOC.
C1_SmallSizeAbortsBeforeName ==
    /\ pc = "name" => ~ULt(cur.size, PrefixSize)
    /\ \A i \in DOMAIN toc : ~ULt(toc[i].size, PrefixSize)

\* C2: when the run proceeds to extraction the sizes of the parsed entries
\* add up to header.toc_size exactly, or a mismatch has been reported.
C2_TocBudgetVerified ==
    pc = "extract" =>
        \/ bytes_read = header.toc_size
        \/ "TocSizeMismatch" \in Range(stdout)

C4_MagicFromLastPyz ==
    pc = "extract" =>
        IF PyzEntries = {}
            THEN pyc_magic = Zeros(16)
            ELSE pyc_magic =
                     Slice(file_content, toc[LastPyz].offset + 4,
                           toc[LastPyz].offset + 8) \o Zeros(12)

\* C4 witness: the walk is over and two nested-container entries with
\* different version bytes were seen, the later one first in neither order.
C4_Witness ==
    /\ pc = "extract"
    /\ \E i, j \in PyzEntries :
           /\ i < j
           /\ j = LastPyz
           /\ Slice(file_content, toc[i].offset + 4, toc[i].offset + 8)
                  # Slice(file_content, toc[j].offset + 4, toc[j].offset + 8)

\* C5: a second run on the same input and output root changes nothing in
\* the output tree: it creates, truncates and rewrites nothing, and after a
\* first run that ended successfully it ends successfully.
C5_RerunLeavesTreeUnchanged ==
    [][(run >= 2 /\ run' = run) =>
           /\ fs' = fs
           /\ prev_status = "ok" => status' # "panicked"]_vars

\* C6: once the TOC is parsed, a failing entry stops nothing but itself:
\* when the run ends every other entry has been processed.
C6_FailureStaysWithItsEntry ==
    (pc = "done" /\ WalkDone) =>
        \A t \in DOMAIN tasks :
            \/ tasks[t].at = "done"
            \/ tasks[t].at = "panicked" /\ tasks[t].next = Last(t, Len(toc))

\* C7: no file or directory is ever created outside the output root.
C7_NothingOutsideRoot ==
    \A p \in DOMAIN fs : p \in {<<>>, Cwd} \/ IsPrefix(base_path, p)

\* C8: no two tasks ever hold the same destination created and open for
\* writing.
C8_DistinctTargets ==
    \A t, u \in DOMAIN tasks :
        (t # u /\ tasks[t].at = "write" /\ tasks[u].at = "write")
            => Dest(toc[tasks[t].next]) # Dest(toc[tasks[u].next])

\* C9: a written source-module file begins with the 16-byte magic exactly
\* when some byte of the magic is nonzero; any other file, and every file
\* when the magic is all zero, holds the payload without a prefix.
C9_PrefixIffMagicNonzero ==
    (pc = "done" /\ status = "ok" /\ run = 1) =>
        \A i \in DOMAIN toc :
            SoleTarget(i) =>
                fs[Dest(toc[i])].data =
                    (IF /\ toc[i].type_ = ARCHIVE_ITEM_PYSOURCE
                        /\ pyc_magic # Zeros(16)
                         THEN pyc_magic ELSE <<>>) \o Payload(toc[i])

\* C10: after a run from an empty output root the destination of every
\* stored entry whose byte range lies inside the file holds exactly these
\* raw bytes.
C10_StoredRoundTrip ==
    (pc = "done" /\ WalkDone /\ run = 1) =>
        \A i \in DOMAIN toc :
            (toc[i].compression_flag = 0 /\ ContentRange(toc[i]).ok) =>
                /\ Dest(toc[i]) \in DOMAIN fs
                /\ fs[Dest(toc[i])] = FileNode(Content(toc[i]))

====
